---- MODULE Spec2Model ----
(***************************************************************************)
(* exhibitor2dns: one-shot reconciliation of Route53 A records with the    *)
(* server list of an Exhibitor-run Zookeeper ensemble                      *)
(* (src/exhibitor2dns/main.py).                                            *)
(*                                                                         *)
(* Strings are sequences of one-character strings, so that indexing        *)
(* (args.rr[-1]), concatenation, %02d formatting and Python's              *)
(* lexicographic string order are computed and not assumed.                *)
(***************************************************************************)
EXTENDS Integers, Sequences, FiniteSets, TLC

VARIABLES
    rr,             \* args.rr
    servers,        \* the "servers" field the Exhibitor endpoint answers with
    rrsets,         \* the hosted zone at the provider: a set of record sets
    zone_at_start,  \* the hosted zone as it was when the current run started
    pc,             \* position of main(): start, servers, aggregate, members, done, aborted
    run,            \* number of the current invocation of main()
    hosted_zone_id, \* local of main()
    target_fqdn,    \* local of main()
    exhibitor_list, \* local of main()
    i,              \* loop variable of main() (0-based, as enumerate gives it)
    response,       \* the last answer of list_resource_record_sets
    steps,          \* history: what each step of each run read, decided and wrote
    faults          \* history: how many calls have failed so far

vars == <<rr, servers, rrsets, zone_at_start, pc, run, hosted_zone_id,
          target_fqdn, exhibitor_list, i, response, steps, faults>>

----------------------------------------------------------------------------
(* Bounds of the model *)

MaxMembers == 2        \* longest server list the endpoint answers with
MaxInitRecords == 1    \* record sets in the hosted zone before the first run
MaxFaults == 1         \* calls of the provider or the endpoint that fail
InitTTL == 60          \* TTL of the record sets that exist before the first run

(* Program constants *)

DefaultTTL == 300      \* --ttl default
FmtWidth == 2          \* the width of %02d

----------------------------------------------------------------------------
(* Strings *)

\* The characters the model uses, in code point order.
Alphabet == <<".", "0", "1", "2", "3", "4", "5", "6", "7", "8", "9",
              "c", "e", "k", "o", "t", "x", "z">>

CodePoint ==
    [c \in {Alphabet[n] : n \in 1..Len(Alphabet)} |->
        CHOOSE n \in 1..Len(Alphabet) : Alphabet[n] = c]

Ord(c) == CodePoint[c]

\* Python's < on str: lexicographic by code point, a proper prefix is smaller.
RECURSIVE StrLess(_, _)
StrLess(a, b) ==
    IF b = <<>> THEN FALSE
    ELSE IF a = <<>> THEN TRUE
    ELSE IF Head(a) # Head(b) THEN Ord(Head(a)) < Ord(Head(b))
    ELSE StrLess(Tail(a), Tail(b))

\* list.sort() keeps equal elements in their order: x goes after every element
\* that is not greater than it.
RECURSIVE InsertSorted(_, _)
InsertSorted(x, s) ==
    IF s = <<>> THEN <<x>>
    ELSE IF StrLess(x, Head(s)) THEN <<x>> \o s
    ELSE <<Head(s)>> \o InsertSorted(x, Tail(s))

\* sorted(list of str)
RECURSIVE sorted(_)
sorted(s) ==
    IF s = <<>> THEN <<>>
    ELSE InsertSorted(s[Len(s)], sorted(SubSeq(s, 1, Len(s) - 1)))

\* The decimal digits of n >= 0, most significant first.
RECURSIVE Digits(_)
Digits(n) ==
    IF n < 10 THEN <<Alphabet[n + 2]>>
    ELSE Digits(n \div 10) \o <<Alphabet[(n % 10) + 2]>>

RECURSIVE ZeroPad(_, _)
ZeroPad(s, width) == IF Len(s) >= width THEN s ELSE ZeroPad(<<"0">> \o s, width)

\* "%02d" % n
Fmt02d(n) == ZeroPad(Digits(n), FmtWidth)

----------------------------------------------------------------------------
(* Command line and environment *)

ZoneName == <<"e", ".", "c">>                 \* --zone e.c

RRChoices == { <<"z", "k">>,                  \* --rr zk
               <<"z", "k", "0", "1">>,        \* --rr zk01
               <<"x", ".", "o", ".">> }       \* --rr x.o.   (absolute)

Addr10 == <<"1", "0", ".", "0", ".", "0", ".", "1", "0">>   \* 10.0.0.10
Addr2  == <<"1", "0", ".", "0", ".", "0", ".", "2">>        \* 10.0.0.2
Addresses == {Addr10, Addr2}

TxtValue == <<"t", "x", "t">>                 \* the value of a TXT record set

SeqsUpTo(S, n) == UNION { [1..k -> S] : k \in 0..n }

\* lines 50-53: the FQDN of the aggregate record
AggregateFqdn(name, zone) ==
    IF name[Len(name)] = "."
    THEN name
    ELSE name \o <<".">> \o zone \o <<".">>

\* PerMemberFqdn with the rank taken one too high
PerMemberFqdnOffByOne(k, zone) ==
    <<"z", "k">> \o Fmt02d(k + 2) \o <<".">> \o zone \o <<".">>

\* line 75 with line 74: "zk%02d.%s." % (i + 1, args.zone)
PerMemberFqdn(k, zone) ==
    <<"z", "k">> \o Fmt02d(k + 1) \o <<".">> \o zone \o <<".">>

----------------------------------------------------------------------------
(* The DNS provider (the boto3 route53 client the program calls) *)

\* A record set is [Name, Type, TTL, ResourceRecords], ResourceRecords a sequence
\* of [Value |-> v]; the hosted zone holds at most one record set per (Name, Type).
Types == {"A", "TXT"}

TypeOrd(t) == IF t = "A" THEN 1 ELSE 2

Wrap(values) == [n \in 1..Len(values) |-> [Value |-> values[n]]]

\* The provider lists record sets by name, then by type.
KeyLess(n1, t1, n2, t2) ==
    \/ StrLess(n1, n2)
    \/ n1 = n2 /\ TypeOrd(t1) < TypeOrd(t2)

RECURSIVE InListOrder(_)
InListOrder(S) ==
    IF S = {} THEN <<>>
    ELSE LET first == CHOOSE r \in S :
                        \A q \in S \ {r} : KeyLess(r.Name, r.Type, q.Name, q.Type)
         IN <<first>> \o InListOrder(S \ {first})

\* line 121: list_resource_record_sets(StartRecordName, StartRecordType) answers
\* with the record sets from the start point onward, in list order.
list_resource_record_sets(zone, StartRecordName, StartRecordType) ==
    [ResourceRecordSets |->
        InListOrder({r \in zone :
            ~KeyLess(r.Name, r.Type, StartRecordName, StartRecordType)})]

\* lines 102-115: one UPSERT change of the A record set of a name replaces the
\* record set of that name and type, or creates it.
change_resource_record_sets(zone, Name, TTL, ResourceRecords) ==
    {r \in zone : ~(r.Name = Name /\ r.Type = "A")}
        \cup {[Name |-> Name, Type |-> "A", TTL |-> TTL,
               ResourceRecords |-> ResourceRecords]}

----------------------------------------------------------------------------
(* The functions of main.py *)

\* lines 34-38: the servers of the answer, sorted
get_zk_servers(answer) == sorted(answer)

\* lines 129-132: the values of one record set, appended in order
RecordValues(record_set) ==
    [n \in 1..Len(record_set.ResourceRecords) |->
        record_set.ResourceRecords[n].Value]

\* NameMatches without the comparison: every record set of the answer is taken
NameMatchesAny(record_set_name, fqdn) == TRUE

\* line 126: a record set of another name is skipped
NameMatches(record_set_name, fqdn) == record_set_name = fqdn

\* lines 123-132: the loop over the answer's record sets
RECURSIVE CollectValues(_, _)
CollectValues(record_sets, fqdn) ==
    IF record_sets = <<>> THEN <<>>
    ELSE (IF NameMatches(Head(record_sets).Name, fqdn)
          THEN RecordValues(Head(record_sets))
          ELSE <<>>)
         \o CollectValues(Tail(record_sets), fqdn)

\* lines 123-134, applied to the answer res of line 121
fetch_existing_resource_records(res, fqdn) ==
    sorted(CollectValues(res.ResourceRecordSets, fqdn))

\* Decide comparing the lists as sets, so that a repeated value does not count
DecideDedup(desired, existing) ==
    IF existing # <<>>
    THEN IF {desired[n] : n \in DOMAIN desired} # {existing[n] : n \in DOMAIN existing}
         THEN "update"
         ELSE "none"
    ELSE "create"

\* lines 62-71 and 81-90: what the run logs and does for one record
Decide(desired, existing) ==
    IF existing # <<>>
    THEN IF sorted(desired) # sorted(existing) THEN "update" ELSE "none"
    ELSE "create"

\* lines 66, 71, 85, 90: upsert_record is called on "create" and on "update"
CallsWriter(action) == action # "none"

\* Submits without the test of line 101
SubmitsAlways(ip_list) == TRUE

\* lines 97-101: the provider is called only with a non-empty list of records
Submits(ip_list) == Wrap(ip_list) # <<>>

\* lines 95-117: the hosted zone after upsert_record; ok is whether the provider
\* accepts the change
upsert_record(zone, fqdn, ip_list, ttl, ok) ==
    IF Submits(ip_list) /\ ok
    THEN change_resource_record_sets(zone, fqdn, ttl, Wrap(ip_list))
    ELSE zone

\* AfterUpsert without the except clause: the error leaves main()
AfterUpsertRaises(ok, next) == IF ok THEN next ELSE "aborted"

\* lines 116-117: an error of the provider is logged and upsert_record returns,
\* so main() goes on with what follows the call
AfterUpsert(ok, next) == next

\* AfterFetch with the error caught, the record taken as not existing
AfterFetchSwallowed(ok, next) == next

\* line 121 is in no try block: an error of the provider leaves main()
AfterFetch(ok, next) == IF ok THEN next ELSE "aborted"

\* lines 60-71 and 79-90 on a hosted zone, every provider call succeeding
ReconcileRecord(zone, fqdn, desired) ==
    LET existing == fetch_existing_resource_records(
                        list_resource_record_sets(zone, fqdn, "A"), fqdn)
    IN IF CallsWriter(Decide(desired, existing))
       THEN upsert_record(zone, fqdn, desired, DefaultTTL, TRUE)
       ELSE zone

----------------------------------------------------------------------------
(* The state machine: main(), one action per provider or endpoint call *)

\* The names the model puts record sets under before the first run: the
\* aggregate name, the first two per-member names, and zk10, which the range
\* scan from zk01 or zk02 passes.
InitNames(name) ==
    {AggregateFqdn(name, ZoneName), PerMemberFqdn(0, ZoneName),
     PerMemberFqdn(1, ZoneName), PerMemberFqdn(9, ZoneName)}

\* What they hold: an A record set of one address, under the aggregate name
\* also one of two addresses (not in order), or a TXT record set.
InitRecordSets(name) ==
    { [Name |-> n, Type |-> "A", TTL |-> InitTTL,
       ResourceRecords |-> Wrap(<<Addr2>>)] : n \in InitNames(name) }
    \cup
    { [Name |-> AggregateFqdn(name, ZoneName), Type |-> "A", TTL |-> InitTTL,
       ResourceRecords |-> Wrap(<<Addr2, Addr10>>)] }
    \cup
    { [Name |-> n, Type |-> "TXT", TTL |-> InitTTL,
       ResourceRecords |-> Wrap(<<TxtValue>>)] :
        n \in {AggregateFqdn(name, ZoneName), PerMemberFqdn(0, ZoneName)} }

OneRecordSetPerKey(zone) ==
    \A r \in zone, q \in zone : (r.Name = q.Name /\ r.Type = q.Type) => r = q

InitZones(name) ==
    { z \in SUBSET InitRecordSets(name) :
        Cardinality(z) <= MaxInitRecords /\ OneRecordSetPerKey(z) }

NoResponse == [ResourceRecordSets |-> <<>>]

\* One entry of the history: a call of the setup (op "zone" or "servers") or the
\* reconciliation of one record (op "record").
SetupStep(op, ok) ==
    [run |-> run, op |-> op, idx |-> -1, name |-> <<>>, desired |-> <<>>,
     existing |-> <<>>, readOk |-> ok, action |-> "-", writer |-> FALSE,
     submitted |-> FALSE, writeOk |-> FALSE]

RecordStep(idx, fqdn, desired, existing, readOk, action, writer, submitted, writeOk) ==
    [run |-> run, op |-> "record", idx |-> idx, name |-> fqdn, desired |-> desired,
     existing |-> existing, readOk |-> readOk, action |-> action, writer |-> writer,
     submitted |-> submitted, writeOk |-> writeOk]

Init ==
    /\ rr \in RRChoices
    /\ servers \in SeqsUpTo(Addresses, MaxMembers)
    /\ rrsets \in InitZones(rr)
    /\ zone_at_start = rrsets
    /\ pc = "start"
    /\ run = 1
    /\ hosted_zone_id = ""
    /\ target_fqdn = <<>>
    /\ exhibitor_list = <<>>
    /\ i = 0
    /\ response = NoResponse
    /\ steps = <<>>
    /\ faults = 0

\* lines 46-55: the zone lookup; it fails when the provider raises or when
\* HostedZones is empty ([0] raises IndexError), and neither is caught.
ResolveZone ==
    /\ pc = "start"
    /\ \E outcome \in {"ok", "error", "empty"} :
        /\ outcome = "ok" \/ faults < MaxFaults
        /\ faults' = IF outcome = "ok" THEN faults ELSE faults + 1
        /\ steps' = Append(steps, SetupStep("zone", outcome = "ok"))
        /\ IF outcome = "ok"
           THEN /\ hosted_zone_id' = "Z1"
                /\ target_fqdn' = AggregateFqdn(rr, ZoneName)
                /\ pc' = "servers"
           ELSE /\ pc' = "aborted"
                /\ UNCHANGED <<hosted_zone_id, target_fqdn>>
    /\ UNCHANGED <<rr, servers, rrsets, zone_at_start, run, exhibitor_list, i, response>>

\* AfterServers with the error caught, the run going on with no servers
AfterServersSwallowed(ok, next) == next

\* line 57: an error of get_zk_servers is not caught
AfterServers(ok, next) == IF ok THEN next ELSE "aborted"

\* lines 57-58: the endpoint is asked for the servers
GetZkServers ==
    /\ pc = "servers"
    /\ \E ok \in BOOLEAN :
        /\ ok \/ faults < MaxFaults
        /\ faults' = IF ok THEN faults ELSE faults + 1
        /\ steps' = Append(steps, SetupStep("servers", ok))
        /\ pc' = AfterServers(ok, "aggregate")
        /\ exhibitor_list' = IF ok THEN get_zk_servers(servers) ELSE exhibitor_list
    /\ UNCHANGED <<rr, servers, rrsets, zone_at_start, run, hosted_zone_id,
                   target_fqdn, i, response>>

\* lines 60-71 and 79-90: read the record, compare, write when they differ.
\* readOk and writeOk are whether the provider answers the two calls.
Reconcile(idx, fqdn, desired, next, readOk, writeOk) ==
    LET res == list_resource_record_sets(rrsets, fqdn, "A")
        existing == fetch_existing_resource_records(res, fqdn)
        action == Decide(desired, existing)
        writer == CallsWriter(action)
        submitted == writer /\ Submits(desired)
    IN IF readOk
       THEN /\ writeOk \/ (submitted /\ faults < MaxFaults)
            /\ faults' = IF submitted /\ ~writeOk THEN faults + 1 ELSE faults
            /\ response' = res
            /\ rrsets' = IF writer
                         THEN upsert_record(rrsets, fqdn, desired, DefaultTTL, writeOk)
                         ELSE rrsets
            /\ steps' = Append(steps, RecordStep(idx, fqdn, desired, existing, TRUE,
                                   action, writer, submitted, submitted /\ writeOk))
            /\ pc' = AfterFetch(TRUE, IF writer THEN AfterUpsert(writeOk, next) ELSE next)
       ELSE /\ writeOk /\ faults < MaxFaults
            /\ faults' = faults + 1
            /\ steps' = Append(steps, RecordStep(idx, fqdn, desired, <<>>, FALSE,
                                   "-", FALSE, FALSE, FALSE))
            /\ pc' = AfterFetch(FALSE, next)
            /\ UNCHANGED <<rrsets, response>>

\* lines 60-71: the aggregate record, against the whole sorted list
ReconcileAggregate ==
    /\ pc = "aggregate"
    /\ \E readOk \in BOOLEAN, writeOk \in BOOLEAN :
        Reconcile(0, target_fqdn, exhibitor_list, "members", readOk, writeOk)
    /\ i' = 0
    /\ UNCHANGED <<rr, servers, zone_at_start, run, hosted_zone_id, target_fqdn,
                   exhibitor_list>>

\* line 73: the members in ascending order; line 78: the one-element list
MemberAt(list, k) == sorted(list)[k + 1]

\* lines 73-90: one turn of the loop, for the member of 0-based position i
ReconcileMember ==
    /\ pc = "members"
    /\ i < Len(exhibitor_list)
    /\ \E readOk \in BOOLEAN, writeOk \in BOOLEAN :
        Reconcile(i + 1, PerMemberFqdn(i, ZoneName),
                  <<MemberAt(exhibitor_list, i)>>, "members", readOk, writeOk)
    /\ target_fqdn' = PerMemberFqdn(i, ZoneName)
    /\ i' = IF pc' = "aborted" THEN i ELSE i + 1
    /\ UNCHANGED <<rr, servers, zone_at_start, run, hosted_zone_id, exhibitor_list>>

\* line 92: 'Done!'
Finish ==
    /\ pc = "members"
    /\ i = Len(exhibitor_list)
    /\ pc' = "done"
    /\ UNCHANGED <<rr, servers, rrsets, zone_at_start, run, hosted_zone_id,
                   target_fqdn, exhibitor_list, i, response, steps, faults>>

\* lines 137-138: the program is started a second time (it runs from a timer),
\* with the same arguments, the same ensemble and nobody else changing the
\* hosted zone in between
Rerun ==
    /\ pc = "done"
    /\ run = 1
    /\ run' = run + 1
    /\ pc' = "start"
    /\ zone_at_start' = rrsets
    /\ hosted_zone_id' = ""
    /\ target_fqdn' = <<>>
    /\ exhibitor_list' = <<>>
    /\ i' = 0
    /\ response' = NoResponse
    /\ UNCHANGED <<rr, servers, rrsets, steps, faults>>

Next ==
    \/ ResolveZone
    \/ GetZkServers
    \/ ReconcileAggregate
    \/ ReconcileMember
    \/ Finish
    \/ Rerun

Spec == Init /\ [][Next]_vars

----------------------------------------------------------------------------
(* Vocabulary of the properties *)

LastStep == steps[Len(steps)]

CurrentRunSteps == SelectSeq(steps, LAMBDA s : s.run = run)

RecordStepsOf(n) == SelectSeq(steps, LAMBDA s : s.run = n /\ s.op = "record")

\* How often v occurs in the list s.
Count(v, s) == Cardinality({n \in DOMAIN s : s[n] = v})

\* The two lists hold the same values, each as often in one as in the other.
SameValues(a, b) ==
    /\ Len(a) = Len(b)
    /\ \A n \in DOMAIN a : Count(a[n], a) = Count(a[n], b)

\* How often v occurs in the first n record sets of rs that bear the name.
RECURSIVE CountUnderName(_, _, _, _)
CountUnderName(v, rs, fqdn, n) ==
    IF n = 0 THEN 0
    ELSE CountUnderName(v, rs, fqdn, n - 1)
         + (IF rs[n].Name = fqdn
            THEN Cardinality({m \in DOMAIN rs[n].ResourceRecords :
                                rs[n].ResourceRecords[m].Value = v})
            ELSE 0)

IsAscending(s) == \A m \in DOMAIN s, n \in DOMAIN s : m < n => ~StrLess(s[n], s[m])

\* What a read of the name gives on the hosted zone as it is now.
ReadBack(fqdn) ==
    fetch_existing_resource_records(list_resource_record_sets(rrsets, fqdn, "A"), fqdn)

\* The two digits of a rank below 100.
TwoDigits(n) == <<Alphabet[(n \div 10) + 2], Alphabet[(n % 10) + 2]>>

\* The name of the member record of 1-based rank n.
RankName(n) == <<"z", "k">> \o TwoDigits(n) \o <<".">> \o ZoneName \o <<".">>

\* The names a run with the server list list may write.
ManagedNames(list) ==
    {AggregateFqdn(rr, ZoneName)} \cup {RankName(n) : n \in 1..Len(list)}

\* The hosted zone after the accepted changes of the steps, in their order.
RECURSIVE Replay(_, _)
Replay(zone, ss) ==
    IF ss = <<>> THEN zone
    ELSE Replay(IF Head(ss).writeOk
                THEN change_resource_record_sets(zone, Head(ss).name, DefaultTTL,
                                                 Wrap(Head(ss).desired))
                ELSE zone,
                Tail(ss))

\* The 1+N steps of a run: step 0 is the aggregate record, step k the k-th member.
StepName(k) ==
    IF k = 0 THEN AggregateFqdn(rr, ZoneName) ELSE PerMemberFqdn(k - 1, ZoneName)

StepDesired(k) ==
    IF k = 0 THEN exhibitor_list ELSE <<MemberAt(exhibitor_list, k - 1)>>

\* The hosted zone after the steps of order, one after the other, no call failing.
RECURSIVE ApplyInOrder(_, _)
ApplyInOrder(zone, order) ==
    IF order = <<>> THEN zone
    ELSE ApplyInOrder(ReconcileRecord(zone, StepName(Head(order)),
                                      StepDesired(Head(order))),
                      Tail(order))

Orders(n) == {o \in [1..(n + 1) -> 0..n] : \A a, b \in 1..(n + 1) : a # b => o[a] # o[b]}

ProgramOrder(n) == [k \in 1..(n + 1) |-> k - 1]

\* The aggregate name is none of the member names, and no record set of another
\* type than A stands under a name the run manages.
NamesApart == AggregateFqdn(rr, ZoneName) \notin {RankName(n) : n \in 1..Len(servers)}

OnlyARecords == \A r \in rrsets : r.Name \in ManagedNames(servers) => r.Type = "A"

----------------------------------------------------------------------------
(* C1: a second run with the same server list, nothing else having changed   *)
(* the hosted zone and no call having failed, submits no change.             *)
C1_SecondRunOnlyReads ==
    (pc = "done" /\ run = 2 /\ faults = 0) =>
        \A n \in DOMAIN steps : steps[n].run = 2 => ~steps[n].submitted

(* C2: after a run in which no call failed, for a server list that is not    *)
(* empty, the aggregate name reads back as the sorted server list and zkNN   *)
(* reads back as the one address of rank NN.                                 *)
C2_ConvergesToDesired ==
    (pc = "done" /\ faults = 0 /\ servers # <<>>) =>
        /\ ReadBack(AggregateFqdn(rr, ZoneName)) = sorted(servers)
        /\ \A n \in 1..Len(servers) :
              ReadBack(RankName(n)) = <<sorted(servers)[n]>>

\* Where C1 and C2 do hold: the names apart and A record sets only.
SecondRunOnlyReadsWhenApart ==
    (pc = "done" /\ run = 2 /\ faults = 0 /\ NamesApart /\ OnlyARecords) =>
        \A n \in DOMAIN steps : steps[n].run = 2 => ~steps[n].submitted

ConvergesWhenApart ==
    (pc = "done" /\ faults = 0 /\ servers # <<>> /\ NamesApart /\ OnlyARecords) =>
        /\ ReadBack(AggregateFqdn(rr, ZoneName)) = sorted(servers)
        /\ \A n \in 1..Len(servers) :
              ReadBack(RankName(n)) = <<sorted(servers)[n]>>

(* C3: a change the provider refuses does not end the run: the next record   *)
(* is the next thing the run reads, and a run that reaches 'Done!' has read  *)
(* every record and submitted a change for each one that needed it.          *)
C3_BestEffortWrites ==
    /\ \A n \in DOMAIN steps :
          (steps[n].submitted /\ ~steps[n].writeOk) =>
              IF n = Len(steps)
              THEN \/ steps[n].run # run
                   \/ pc \in {"members", "done"} /\ i = steps[n].idx
              ELSE \/ steps[n + 1].run # steps[n].run
                   \/ steps[n + 1].op = "record" /\ steps[n + 1].idx = steps[n].idx + 1
    /\ pc = "done" =>
          LET rs == RecordStepsOf(run)
          IN /\ Len(rs) = Len(servers) + 1
             /\ \A k \in DOMAIN rs :
                   /\ rs[k].idx = k - 1
                   /\ rs[k].readOk
                   /\ (rs[k].desired # <<>> /\ ~SameValues(rs[k].desired, rs[k].existing))
                          => rs[k].submitted

C3_Witness ==
    /\ pc = "done"
    /\ \E m \in DOMAIN steps, n \in DOMAIN steps :
          /\ m < n
          /\ steps[m].run = run /\ steps[n].run = run
          /\ steps[m].submitted /\ ~steps[m].writeOk
          /\ steps[n].submitted /\ steps[n].writeOk

(* C4: when the zone lookup or the fetch of the servers fails, the run ends  *)
(* there: it never reaches 'Done!', reads and writes no record set, and the  *)
(* hosted zone is as it was when the run started.                            *)
C4_FatalTier ==
    \A n \in DOMAIN steps :
        (steps[n].op \in {"zone", "servers"} /\ ~steps[n].readOk) =>
            /\ n = Len(steps)
            /\ pc = "aborted"
            /\ RecordStepsOf(steps[n].run) = <<>>
            /\ rrsets = zone_at_start

C4_Witness ==
    /\ pc = "aborted"
    /\ steps # <<>>
    /\ LastStep.op = "servers" /\ ~LastStep.readOk
    /\ servers # <<>>
    /\ run = 2

(* C5: what is done for a record depends on the two lists alone: create and  *)
(* write iff nothing exists; nothing iff something exists and the lists hold *)
(* the same values equally often; update and write iff something exists and  *)
(* they do not. The aggregate record and the member records alike.           *)
C5_ReconcilerDecision ==
    \A n \in DOMAIN steps :
        (steps[n].op = "record" /\ steps[n].readOk) =>
            LET s == steps[n]
                same == SameValues(s.desired, s.existing)
            IN /\ (s.action = "create" /\ s.writer) <=> s.existing = <<>>
               /\ (s.action = "none" /\ ~s.writer) <=> (s.existing # <<>> /\ same)
               /\ (s.action = "update" /\ s.writer) <=> (s.existing # <<>> /\ ~same)

C5_Witness ==
    /\ \E n \in DOMAIN steps : steps[n].idx = 0 /\ steps[n].action = "create"
    /\ \E n \in DOMAIN steps : steps[n].idx > 0 /\ steps[n].action = "none"
    /\ \E n \in DOMAIN steps :
          /\ steps[n].action = "update"
          /\ steps[n].existing = <<Addr2>>
          /\ steps[n].desired = <<Addr2, Addr2>>

(* C6: a read gives, in ascending order, the values of the record sets of    *)
(* the answer that bear exactly the name asked for, and of no other; it is   *)
(* empty when there is none.                                                 *)
C6_ExactMatchFilter ==
    (steps # <<>> /\ pc # "start" /\ LastStep.op = "record" /\ LastStep.readOk) =>
        LET rs == response.ResourceRecordSets
            got == LastStep.existing
        IN /\ IsAscending(got)
           /\ \A n \in DOMAIN got : got[n] \in Addresses \cup {TxtValue}
           /\ \A v \in Addresses \cup {TxtValue} :
                 Count(v, got) = CountUnderName(v, rs, LastStep.name, Len(rs))
           /\ (\A n \in DOMAIN rs : rs[n].Name # LastStep.name) => got = <<>>

C6_Witness ==
    /\ steps # <<>> /\ pc # "start" /\ LastStep.op = "record" /\ LastStep.readOk
    /\ LastStep.name = RankName(1)
    /\ LastStep.existing = <<Addr10>>
    /\ \E n \in DOMAIN response.ResourceRecordSets :
          /\ response.ResourceRecordSets[n].Name = RankName(10)
          /\ RecordValues(response.ResourceRecordSets[n]) = <<Addr2>>

(* C7: a call of the writer with no values reaches the provider never: no    *)
(* change submitted has an empty list, and no record set is ever empty.      *)
C7_EmptyWriteGuard ==
    /\ \A n \in DOMAIN steps :
          /\ (steps[n].writer /\ steps[n].desired = <<>>) => ~steps[n].submitted
          /\ steps[n].submitted => steps[n].desired # <<>>
    /\ \A r \in rrsets : r.ResourceRecords # <<>>

C7_Witness ==
    /\ servers = <<>>
    /\ \E n \in DOMAIN steps :
          /\ steps[n].writer
          /\ steps[n].desired = <<>>
          /\ steps[n].existing # <<>>
          /\ ~steps[n].submitted

(* C8: the 1+N steps of a run leave the hosted zone the same in whatever     *)
(* order they are taken, also when the aggregate name is a member's name.    *)
C8_OrderIndependent ==
    pc = "aggregate" =>
        \A o \in Orders(Len(exhibitor_list)) :
            ApplyInOrder(rrsets, o)
                = ApplyInOrder(rrsets, ProgramOrder(Len(exhibitor_list)))

\* Where C8 does hold: the aggregate name apart from the member names.
OrderIndependentWhenApart ==
    (pc = "aggregate" /\ NamesApart) =>
        \A o \in Orders(Len(exhibitor_list)) :
            ApplyInOrder(rrsets, o)
                = ApplyInOrder(rrsets, ProgramOrder(Len(exhibitor_list)))

(* C9: a run submits changes under the aggregate name and under zk01..zkN    *)
(* only, at most one per record, deletes nothing, and leaves every other     *)
(* record set as it was, the zkNN of a larger ensemble of old among them.    *)
C9_Frame ==
    LET cur == CurrentRunSteps
        managed == ManagedNames(servers)
    IN /\ \A n \in DOMAIN cur : cur[n].submitted => cur[n].name \in managed
       /\ \A r \in zone_at_start : \E q \in rrsets : q.Name = r.Name /\ q.Type = r.Type
       /\ \A r \in zone_at_start : (r.Type # "A" \/ r.Name \notin managed) => r \in rrsets
       /\ \A q \in rrsets : q \in zone_at_start \/ (q.Type = "A" /\ q.Name \in managed)
       /\ Cardinality(rrsets \ zone_at_start)
             <= Cardinality({n \in DOMAIN cur : cur[n].writeOk})

C9_Witness ==
    /\ pc = "done"
    /\ Len(servers) = 1
    /\ rrsets # zone_at_start
    /\ [Name |-> RankName(2), Type |-> "A", TTL |-> InitTTL,
        ResourceRecords |-> Wrap(<<Addr2>>)] \in rrsets

(* C10: a read of a record that fails ends the run there, as every failing   *)
(* call but a refused change does: nothing is read or written after it, and  *)
(* the hosted zone keeps the changes accepted before it.                     *)
C10_ReadFailureAborts ==
    /\ \A n \in DOMAIN steps :
          ~steps[n].readOk => (n = Len(steps) /\ pc = "aborted")
    /\ pc = "aborted" => (steps # <<>> /\ ~LastStep.readOk)
    /\ rrsets = Replay(zone_at_start, CurrentRunSteps)

C10_Witness ==
    /\ pc = "aborted"
    /\ steps # <<>>
    /\ LastStep.op = "record" /\ LastStep.idx = 2 /\ ~LastStep.readOk
    /\ rrsets # zone_at_start
    /\ \E n \in DOMAIN steps : steps[n].run = run /\ steps[n].writeOk

====
